---------------------------- MODULE Spec2Model ----------------------------
(***************************************************************************)
(* Model of src/driver_simulator.py: the route densifier                   *)
(* (evenly_space_coordinates), the waypoint test (_is_near_waypoint) and   *)
(* the walk of DriverSimulator.drive_route, started from main.             *)
(*                                                                         *)
(* Coordinates are integers counting quanta of 1e-6 degree, the resolution *)
(* of round(x, 6); a point is <<longitude, latitude>> on a grid of          *)
(* non-negative coordinates.  Distances are kept squared so that math.sqrt *)
(* is never approximated, and the interpolation is exact rational          *)
(* arithmetic followed by the rounding of round.                           *)
(*                                                                         *)
(* Exceptions that no handler of the source catches end the program: pc    *)
(* becomes "aborted" and exception names the error.  The server is taken   *)
(* to answer a successful request with a JSON object.                      *)
(***************************************************************************)
EXTENDS Integers, Sequences, FiniteSets, TLC

\* ------------------------------------------------------------------ bounds
\* the densifier alone
MaxLon == 3
MaxLat == 2
MaxRouteLen == 3
MaxSpacing == 2
\* the whole program
MaxWalkLat == 2
MaxWalkRouteLen == 2
MaxWalkSpacing == 1
MaxStopLat == 1
MaxBins == 2
MaxTolerance == 2
\* the waypoint match on the whole grid
MaxMatchBins == 1
\* the whole program under fairness
MaxFairBins == 1

\* len(BINS_TO_RESET), line 99
NumBinsToReset == 2

Points == (0..MaxLon) \X (0..MaxLat)
Routes == UNION {[1..n -> Points] : n \in 0..MaxRouteLen}
Spacings == 1..MaxSpacing

\* The walk is checked on the routes that stay on the meridian of longitude 0.
WalkPoints == {0} \X (0..MaxWalkLat)
WalkRoutes == UNION {[1..n -> WalkPoints] : n \in 0..MaxWalkRouteLen}
WalkSpacings == 1..MaxWalkSpacing
StopPoints == {0} \X (0..MaxStopLat)
Bins == UNION {[1..n -> StopPoints] : n \in 0..MaxBins}
Tolerances == 1..MaxTolerance
\* The match is checked on one-point routes and stops anywhere on the grid.
MatchRoutes == [1..1 -> Points]
MatchBins == UNION {[1..n -> Points] : n \in 0..MaxMatchBins}
FairBins == UNION {[1..n -> StopPoints] : n \in 0..MaxFairBins}
\* --speed and --pause, one value of each kind: time.sleep raises for a negative
\* length, 1.0 / speed raises for speed 0
Speeds == {-1, 0, 1}
Pauses == {-1, 0}
\* --token: absent, or a token
Tokens == {"", "tok"}

Abs(x) == IF x < 0 THEN -x ELSE x

VARIABLES
    pc,                          \* position in the program
    ORIGINAL_ROUTE_COORDINATES,  \* line 64
    spacing_factor,              \* second argument of the call at line 86
    ROUTE_COORDINATES,           \* line 86
    BIN_COORDINATES,             \* line 89
    COORDINATE_TOLERANCE,        \* line 96
    skip_reset,                  \* args.skip_reset, line 279
    token,                       \* line 284
    speed,                       \* self.speed, line 121
    pause_time,                  \* self.pause_time, line 122
    bin_k,                       \* position of the loop of line 136 in BINS_TO_RESET
    reset_outcome,               \* how the try block of lines 138-153 ended for the
                                 \* current bin, "none" outside reset_bin_fill_levels
    i,                           \* loop index of line 214, counted from 0
    is_at_bin,                   \* line 219
    bin_index,                   \* line 220, -1 for None
    response,                    \* line 230
    exception,                   \* the exception that ended the program, if any
    log                          \* what the walk has done so far, in order

vars == <<pc, ORIGINAL_ROUTE_COORDINATES, spacing_factor, ROUTE_COORDINATES,
          BIN_COORDINATES, COORDINATE_TOLERANCE, skip_reset, token, speed, pause_time,
          bin_k, reset_outcome, i, is_at_bin, bin_index, response, exception, log>>

module_vars == <<ORIGINAL_ROUTE_COORDINATES, spacing_factor, ROUTE_COORDINATES,
                 BIN_COORDINATES, COORDINATE_TOLERANCE>>
walk_vars == <<i, is_at_bin, bin_index, response, log>>

\* ---------------------------------------------------------------- helpers
\* (end_point[0] - start_point[0])**2 + (end_point[1] - start_point[1])**2
Distance2(start_point, end_point) ==
    (end_point[1] - start_point[1]) * (end_point[1] - start_point[1])
  + (end_point[2] - start_point[2]) * (end_point[2] - start_point[2])

\* int(distance / spacing_factor) for distance = sqrt(d2), spacing_factor > 0:
\* the largest n with n * spacing_factor <= sqrt(d2).
RECURSIVE IntQuotient(_, _, _)
IntQuotient(d2, s, n) ==
    IF (n + 1) * (n + 1) * s * s <= d2 THEN IntQuotient(d2, s, n + 1) ELSE n

Max(a, b) == IF a >= b THEN a ELSE b

\* round(p / q, 6) in quanta, q > 0: Python rounds to nearest, ties to even.
Round6(p, q) ==
    LET f == p \div q
        r == p - f * q
    IN  IF 2 * r < q THEN f
        ELSE IF 2 * r > q THEN f + 1
        ELSE IF f % 2 = 0 THEN f ELSE f + 1

\* num_points that never subdivides a segment
num_points_one(start_point, end_point, s) == 1

\* num_points that rounds the quotient up instead of down
num_points_ceil(start_point, end_point, s) ==
    LET n == IntQuotient(Distance2(start_point, end_point), s, 0)
    IN  Max(1, IF n * n * s * s = Distance2(start_point, end_point) THEN n ELSE n + 1)

\* line 45: num_points = max(1, int(distance / spacing_factor))
num_points(start_point, end_point, s) ==
    Max(1, IntQuotient(Distance2(start_point, end_point), s, 0))

\* lines 49-52: the j-th intermediate point of num points, rounded
intermediate(start_point, end_point, j, num) ==
    << Round6(start_point[1] * num + j * (end_point[1] - start_point[1]), num),
       Round6(start_point[2] * num + j * (end_point[2] - start_point[2]), num) >>

\* lines 48-52: for j in range(j, num): result.append(intermediate)
RECURSIVE inner_loop(_, _, _, _, _)
inner_loop(result, start_point, end_point, j, num) ==
    IF j < num
    THEN inner_loop(Append(result, intermediate(start_point, end_point, j, num)),
                    start_point, end_point, j + 1, num)
    ELSE result

\* the loop of lines 34-56 without the append of end_point of lines 55-56
RECURSIVE outer_loop_noend(_, _, _, _)
outer_loop_noend(result, coordinates, s, seg) ==
    IF seg < Len(coordinates) - 1
    THEN LET start_point == coordinates[seg + 1]
             end_point == coordinates[seg + 2]
             num == num_points(start_point, end_point, s)
         IN  outer_loop_noend(inner_loop(result, start_point, end_point, 1, num),
                              coordinates, s, seg + 1)
    ELSE result

\* lines 34-56: for i in range(seg, len(coordinates) - 1); seg is the source's
\* loop index i, counted from 0
RECURSIVE outer_loop(_, _, _, _)
outer_loop(result, coordinates, s, seg) ==
    IF seg < Len(coordinates) - 1
    THEN LET start_point == coordinates[seg + 1]
             end_point == coordinates[seg + 2]
             num == num_points(start_point, end_point, s)
             r1 == inner_loop(result, start_point, end_point, 1, num)
             r2 == IF seg < Len(coordinates) - 2 THEN Append(r1, end_point) ELSE r1
         IN  outer_loop(r2, coordinates, s, seg + 1)
    ELSE result

\* evenly_space_coordinates without the final append of line 59
evenly_space_coordinates_nofinal(coordinates, s) ==
    IF Len(coordinates) < 2
    THEN coordinates
    ELSE outer_loop(<<coordinates[1]>>, coordinates, s, 0)

\* evenly_space_coordinates without the early return of lines 29-30 for a
\* route of one point
evenly_space_coordinates_noguard(coordinates, s) ==
    IF Len(coordinates) = 0
    THEN coordinates
    ELSE Append(outer_loop(<<coordinates[1]>>, coordinates, s, 0),
                coordinates[Len(coordinates)])

\* lines 18-61
evenly_space_coordinates(coordinates, s) ==
    IF Len(coordinates) < 2
    THEN coordinates
    ELSE Append(outer_loop(<<coordinates[1]>>, coordinates, s, 0),
                coordinates[Len(coordinates)])

\* _is_near_waypoint that compares the latitudes only
is_near_waypoint_lat(coords1, coords2, tolerance) ==
    Abs(coords1[2] - coords2[2]) < tolerance

\* the waypoint test with a closed square: <= for <
is_near_waypoint_closed(current_position, waypoint, tolerance) ==
    /\ Abs(current_position[1] - waypoint[1]) <= tolerance
    /\ Abs(current_position[2] - waypoint[2]) <= tolerance

\* lines 172-176
is_near_waypoint(current_position, waypoint, tolerance) ==
    /\ Abs(current_position[1] - waypoint[1]) < tolerance
    /\ Abs(current_position[2] - waypoint[2]) < tolerance

\* the loop of lines 222-226 without its break: the last bin that matches
RECURSIVE find_bin_last(_, _, _, _)
find_bin_last(coords, bins, tolerance, idx) ==
    IF idx >= Len(bins) THEN -1
    ELSE LET later == find_bin_last(coords, bins, tolerance, idx + 1)
         IN  IF later # -1 THEN later
             ELSE IF is_near_waypoint(coords, bins[idx + 1], tolerance) THEN idx
             ELSE -1

\* lines 222-226: for idx, bin_coords in enumerate(bins), from idx on; the index
\* of the bin the loop breaks at, -1 (None) when it runs to the end
RECURSIVE find_bin(_, _, _, _)
find_bin(coords, bins, tolerance, idx) ==
    IF idx >= Len(bins) THEN -1
    ELSE IF is_near_waypoint(coords, bins[idx + 1], tolerance) THEN idx
    ELSE find_bin(coords, bins, tolerance, idx + 1)

\* update_location without its try/except: the request error propagates
update_location_raises(outcome) ==
    IF outcome = "ok" THEN "json" ELSE "raised"

\* lines 195-203: what update_location returns for an outcome of the request
update_location(outcome) ==
    IF outcome = "ok" THEN "json" ELSE "error"

\* one entry of the log
Event(ev, idx, b) ==
    [ev |-> ev, i |-> idx, coords |-> ROUTE_COORDINATES[idx + 1], bin |-> b]

\* ---------------------------------------------------------------- actions
\* line 86, run when the module is loaded
LoadRoute ==
    /\ pc = "load"
    /\ ROUTE_COORDINATES' =
           evenly_space_coordinates(ORIGINAL_ROUTE_COORDINATES, spacing_factor)
    /\ pc' = "main"
    /\ UNCHANGED <<ORIGINAL_ROUTE_COORDINATES, spacing_factor, BIN_COORDINATES,
                   COORDINATE_TOLERANCE, skip_reset, token, speed, pause_time, bin_k, reset_outcome,
                   exception>>
    /\ UNCHANGED walk_vars

\* lines 284-285: args.token is what the command line gave
MainToken ==
    /\ pc = "main"
    /\ \E args_token \in Tokens :
          /\ token' = args_token
          /\ pc' = IF args_token = "" THEN "login" ELSE "construct"
    /\ UNCHANGED <<module_vars, skip_reset, speed, pause_time, bin_k, reset_outcome, exception>>
    /\ UNCHANGED walk_vars

\* Login whose caller goes on to construct the simulator without a token
Login_continue ==
    /\ pc = "login"
    /\ \E outcome \in {"token", "no_token", "request_error"} :
          /\ token' = IF outcome = "token" THEN "tok" ELSE ""
          /\ pc' = "construct"
    /\ UNCHANGED <<module_vars, skip_reset, speed, pause_time, bin_k, reset_outcome, exception>>
    /\ UNCHANGED walk_vars

\* lines 287-290 with login, lines 252-269
Login ==
    /\ pc = "login"
    /\ \E outcome \in {"token", "no_token", "request_error"} :
          /\ token' = IF outcome = "token" THEN "tok" ELSE ""
          /\ pc' = IF outcome = "token" THEN "construct" ELSE "exited"
    /\ UNCHANGED <<module_vars, skip_reset, speed, pause_time, bin_k, reset_outcome, exception>>
    /\ UNCHANGED walk_vars

\* lines 294-301 with __init__, lines 119-130, up to the call of drive_route;
\* args.speed and args.pause are what the command line gave
Construct ==
    /\ pc = "construct"
    /\ speed' \in Speeds
    /\ pause_time' \in Pauses
    /\ bin_k' = 0
    /\ pc' = "reset_put"
    /\ UNCHANGED <<module_vars, skip_reset, token, reset_outcome, exception>>
    /\ UNCHANGED walk_vars

\* ResetPut that goes on to the fallback request whatever the primary returned
ResetPut_alwaysfallback ==
    /\ pc = "reset_put"
    /\ bin_k < NumBinsToReset
    /\ \E ok \in BOOLEAN :
          /\ reset_outcome' = IF ok THEN "ok" ELSE "error"
          /\ bin_k' = bin_k
          /\ pc' = "reset_fallback"
    /\ UNCHANGED <<module_vars, skip_reset, token, speed, pause_time, exception>>
    /\ UNCHANGED walk_vars

\* lines 136-153: the primary request for the next bin of BINS_TO_RESET
ResetPut ==
    /\ pc = "reset_put"
    /\ bin_k < NumBinsToReset
    /\ \E ok \in BOOLEAN :
          IF ok THEN /\ reset_outcome' = "ok"
                     /\ bin_k' = bin_k + 1
                     /\ pc' = "reset_put"
                ELSE /\ reset_outcome' = "error"
                     /\ bin_k' = bin_k
                     /\ pc' = "reset_fallback"
    /\ UNCHANGED <<module_vars, skip_reset, token, speed, pause_time, exception>>
    /\ UNCHANGED walk_vars

\* lines 156-170: the fallback request, whatever its outcome
ResetFallback ==
    /\ pc = "reset_fallback"
    /\ \E ok \in BOOLEAN :
          /\ bin_k' = bin_k + 1
          /\ pc' = "reset_put"
    /\ UNCHANGED <<module_vars, skip_reset, token, speed, pause_time, reset_outcome,
                   exception>>
    /\ UNCHANGED walk_vars

\* lines 210-214: the reset is over, the loop over ROUTE_COORDINATES starts
StartWalk ==
    /\ pc = "reset_put"
    /\ bin_k = NumBinsToReset
    /\ reset_outcome' = "none"
    /\ i' = 0
    /\ pc' = IF Len(ROUTE_COORDINATES) = 0 THEN "done" ELSE "match"
    /\ UNCHANGED <<module_vars, skip_reset, token, speed, pause_time, bin_k, exception,
                   is_at_bin, bin_index, response, log>>

\* Match that remembers the bins already served and never matches one again
Match_memory ==
    /\ pc = "match"
    /\ LET b == find_bin(ROUTE_COORDINATES[i + 1], BIN_COORDINATES,
                         COORDINATE_TOLERANCE, 0)
           served == \E n \in DOMAIN log : log[n].ev = "arrive" /\ log[n].bin = b
       IN  /\ is_at_bin' = (b # -1 /\ ~served)
           /\ bin_index' = IF served THEN -1 ELSE b
    /\ pc' = "report"
    /\ UNCHANGED <<module_vars, skip_reset, token, speed, pause_time, bin_k, reset_outcome,
                   exception, i, response, log>>

\* lines 216-226
Match ==
    /\ pc = "match"
    /\ LET b == find_bin(ROUTE_COORDINATES[i + 1], BIN_COORDINATES,
                         COORDINATE_TOLERANCE, 0)
       IN  /\ is_at_bin' = (b # -1)
           /\ bin_index' = b
    /\ pc' = "report"
    /\ UNCHANGED <<module_vars, skip_reset, token, speed, pause_time, bin_k, reset_outcome, exception,
                   i, response, log>>

\* Report that forgets the pause at a bin
Report_nodwell ==
    /\ pc = "report"
    /\ \E outcome \in {"ok", "request_error"} :
          response' = update_location(outcome)
    /\ log' = Append(log, [ev |-> "report", i |-> i,
                           coords |-> ROUTE_COORDINATES[i + 1], bin |-> -1])
    /\ pc' = "advance"
    /\ UNCHANGED <<module_vars, skip_reset, token, speed, pause_time, bin_k, reset_outcome, exception,
                   i, is_at_bin, bin_index>>

\* Report that gives up the pause at a bin when the request has failed
Report_failfast ==
    /\ pc = "report"
    /\ \E outcome \in {"ok", "request_error"} :
          /\ response' = update_location(outcome)
          /\ pc' = IF outcome = "ok" /\ is_at_bin THEN "arrive" ELSE "advance"
    /\ log' = Append(log, [ev |-> "report", i |-> i,
                           coords |-> ROUTE_COORDINATES[i + 1], bin |-> -1])
    /\ UNCHANGED <<module_vars, skip_reset, token, speed, pause_time, bin_k, reset_outcome,
                   exception, i, is_at_bin, bin_index>>

\* lines 229-238
Report ==
    /\ pc = "report"
    /\ \E outcome \in {"ok", "request_error"} :
          response' = update_location(outcome)
    /\ log' = Append(log, Event("report", i, -1))
    /\ pc' = IF response' = "raised" THEN "aborted"
             ELSE IF is_at_bin THEN "arrive" ELSE "advance"
    /\ exception' = IF response' = "raised" THEN "RequestException" ELSE exception
    /\ UNCHANGED <<module_vars, skip_reset, token, speed, pause_time, bin_k, reset_outcome,
                   i, is_at_bin, bin_index>>

\* lines 239-240
Arrive ==
    /\ pc = "arrive"
    /\ log' = Append(log, Event("arrive", i, bin_index))
    /\ pc' = "dwell"
    /\ UNCHANGED <<module_vars, skip_reset, token, speed, pause_time, bin_k, reset_outcome, exception,
                   i, is_at_bin, bin_index, response>>

\* line 241: time.sleep raises ValueError for a negative length
Dwell ==
    /\ pc = "dwell"
    /\ IF pause_time < 0
       THEN /\ exception' = "ValueError"
            /\ pc' = "aborted"
            /\ log' = log
       ELSE /\ exception' = exception
            /\ pc' = "depart"
            /\ log' = Append(log, Event("dwell", i, bin_index))
    /\ UNCHANGED <<module_vars, skip_reset, token, speed, pause_time, bin_k, reset_outcome,
                   i, is_at_bin, bin_index, response>>

\* line 242
Depart ==
    /\ pc = "depart"
    /\ log' = Append(log, Event("depart", i, bin_index))
    /\ pc' = "advance"
    /\ UNCHANGED <<module_vars, skip_reset, token, speed, pause_time, bin_k, reset_outcome, exception,
                   i, is_at_bin, bin_index, response>>

\* Advance that stops one point short of the end of the route
Advance_short ==
    /\ pc = "advance"
    /\ IF i < Len(ROUTE_COORDINATES) - 2
       THEN IF speed <= 0
            THEN /\ exception' = IF speed = 0 THEN "ZeroDivisionError" ELSE "ValueError"
                 /\ pc' = "aborted"
                 /\ UNCHANGED <<i, log>>
            ELSE /\ log' = Append(log, [ev |-> "wait", i |-> i,
                                        coords |-> ROUTE_COORDINATES[i + 1], bin |-> -1])
                 /\ i' = i + 1
                 /\ pc' = "match"
                 /\ UNCHANGED exception
       ELSE /\ pc' = "done"
            /\ UNCHANGED <<i, log, exception>>
    /\ UNCHANGED <<module_vars, skip_reset, token, speed, pause_time, bin_k, reset_outcome,
                   is_at_bin, bin_index, response>>

\* Advance that never leaves the loop after the last point
Advance_hang ==
    /\ pc = "advance"
    /\ IF i < Len(ROUTE_COORDINATES) - 1
       THEN IF speed <= 0
            THEN /\ exception' = IF speed = 0 THEN "ZeroDivisionError" ELSE "ValueError"
                 /\ pc' = "aborted"
                 /\ UNCHANGED <<i, log>>
            ELSE /\ log' = Append(log, [ev |-> "wait", i |-> i,
                                        coords |-> ROUTE_COORDINATES[i + 1], bin |-> -1])
                 /\ i' = i + 1
                 /\ pc' = "match"
                 /\ UNCHANGED exception
       ELSE /\ pc' = "advance"
            /\ UNCHANGED <<i, log, exception>>
    /\ UNCHANGED <<module_vars, skip_reset, token, speed, pause_time, bin_k, reset_outcome,
                   is_at_bin, bin_index, response>>

\* Advance that sleeps 1.0 / speed after the last point too
Advance_waitlast ==
    /\ pc = "advance"
    /\ IF speed <= 0
       THEN /\ exception' = IF speed = 0 THEN "ZeroDivisionError" ELSE "ValueError"
            /\ pc' = "aborted"
            /\ UNCHANGED <<i, log>>
       ELSE /\ log' = Append(log, [ev |-> "wait", i |-> i,
                                   coords |-> ROUTE_COORDINATES[i + 1], bin |-> -1])
            /\ i' = IF i < Len(ROUTE_COORDINATES) - 1 THEN i + 1 ELSE i
            /\ pc' = IF i < Len(ROUTE_COORDINATES) - 1 THEN "match" ELSE "done"
            /\ UNCHANGED exception
    /\ UNCHANGED <<module_vars, skip_reset, token, speed, pause_time, bin_k, reset_outcome,
                   is_at_bin, bin_index, response>>

\* lines 246-248 and the next turn of the loop of line 214, or line 250
Advance ==
    /\ pc = "advance"
    /\ IF i < Len(ROUTE_COORDINATES) - 1
       THEN IF speed = 0
            THEN /\ exception' = "ZeroDivisionError"
                 /\ pc' = "aborted"
                 /\ UNCHANGED <<i, log>>
            ELSE IF speed < 0
            THEN /\ exception' = "ValueError"
                 /\ pc' = "aborted"
                 /\ UNCHANGED <<i, log>>
            ELSE /\ log' = Append(log, Event("wait", i, -1))
                 /\ i' = i + 1
                 /\ pc' = "match"
                 /\ UNCHANGED exception
       ELSE /\ pc' = "done"
            /\ UNCHANGED <<i, log, exception>>
    /\ UNCHANGED <<module_vars, skip_reset, token, speed, pause_time, bin_k, reset_outcome,
                   is_at_bin, bin_index, response>>

\* -------------------------------------------------------- specifications
NoWalk ==
    /\ token = ""
    /\ speed = 0
    /\ pause_time = 0
    /\ bin_k = 0
    /\ reset_outcome = "none"
    /\ i = 0
    /\ is_at_bin = FALSE
    /\ bin_index = -1
    /\ response = "none"
    /\ exception = "none"
    /\ log = <<>>

\* The whole program, from the loading of the module to the end of main.
Init ==
    /\ pc = "load"
    /\ ORIGINAL_ROUTE_COORDINATES \in WalkRoutes
    /\ spacing_factor \in WalkSpacings
    /\ ROUTE_COORDINATES = <<>>
    /\ BIN_COORDINATES \in Bins
    /\ COORDINATE_TOLERANCE \in Tolerances
    /\ skip_reset \in BOOLEAN
    /\ NoWalk

Next ==
    \/ LoadRoute
    \/ MainToken
    \/ Login
    \/ Construct
    \/ ResetPut
    \/ ResetFallback
    \/ StartWalk
    \/ Match
    \/ Report
    \/ Arrive
    \/ Dwell
    \/ Depart
    \/ Advance

Spec == Init /\ [][Next]_vars

\* The densifier alone, on every route of the grid.
InitDensify ==
    /\ pc = "load"
    /\ ORIGINAL_ROUTE_COORDINATES \in Routes
    /\ spacing_factor \in Spacings
    /\ ROUTE_COORDINATES = <<>>
    /\ BIN_COORDINATES = <<>>
    /\ COORDINATE_TOLERANCE = 1
    /\ skip_reset = FALSE
    /\ NoWalk

NextDensify == LoadRoute

SpecDensify == InitDensify /\ [][NextDensify]_vars

\* The whole program on a route of one point, the point and the stops anywhere
\* on the grid: the waypoint match in both axes.
InitMatch ==
    /\ pc = "load"
    /\ ORIGINAL_ROUTE_COORDINATES \in MatchRoutes
    /\ spacing_factor = 1
    /\ ROUTE_COORDINATES = <<>>
    /\ BIN_COORDINATES \in MatchBins
    /\ COORDINATE_TOLERANCE \in Tolerances
    /\ skip_reset = FALSE
    /\ NoWalk

SpecMatch == InitMatch /\ [][Next]_vars

\* The whole program when every step that can be taken is eventually taken:
\* every request, sleep and print returns.
InitFair ==
    /\ pc = "load"
    /\ ORIGINAL_ROUTE_COORDINATES \in WalkRoutes
    /\ spacing_factor \in WalkSpacings
    /\ ROUTE_COORDINATES = <<>>
    /\ BIN_COORDINATES \in FairBins
    /\ COORDINATE_TOLERANCE \in Tolerances
    /\ skip_reset = FALSE
    /\ NoWalk

SpecFair == InitFair /\ [][Next]_vars /\ WF_vars(Next)

\* ------------------------------------------------------------------ claims
RouteLen == Len(ROUTE_COORDINATES)

\* C1: a failing location report does not abort the walk.  The step that takes
\* a failing report goes on to the rest of its step exactly as after a
\* successful one (the dwell if at a bin, else the advance), and while the
\* error value of step k is still the last response the walker advances to
\* index k+1, checks it and reports its position.
C1_FailedReportContinues ==
    [][ /\ (pc = "report" /\ response' # "json") =>
              /\ response' = "error"
              /\ pc' = IF is_at_bin THEN "arrive" ELSE "advance"
              /\ i' = i
              /\ exception' = "none"
        /\ (response = "error" /\ pc = "advance" /\ i < RouteLen - 1 /\ pc' # "aborted") =>
              /\ pc' = "match"
              /\ i' = i + 1
        /\ (response = "error" /\ pc = "advance" /\ pc' = "aborted") => speed <= 0
        /\ (response = "error" /\ pc = "match") => pc' = "report"
        /\ (response = "error" /\ pc = "report") =>
              log' = Append(log, Event("report", i, -1))
      ]_vars

\* the report of step k failed, k is not the last index, and step k+1 has come
\* to its own report
C1_Witness ==
    /\ pc = "report"
    /\ response = "error"
    /\ i >= 1
    /\ \E n \in DOMAIN log : log[n].ev = "report" /\ log[n].i = i - 1

\* C2: a non-positive speed is rejected before the loop starts: the program
\* never aborts after the loop has reported a position.
C2_NoAbortAfterReport ==
    ~(pc = "aborted" /\ speed <= 0 /\ log # <<>>)

\* The positions of the log that hold event ev of route index k.
Events(ev, k) == {n \in DOMAIN log : log[n].ev = ev /\ log[n].i = k}

\* Point p lies inside the open tolerance square of stop b (counted from 0).
InSquare(p, b) ==
    /\ p[1] - BIN_COORDINATES[b + 1][1] < COORDINATE_TOLERANCE
    /\ BIN_COORDINATES[b + 1][1] - p[1] < COORDINATE_TOLERANCE
    /\ p[2] - BIN_COORDINATES[b + 1][2] < COORDINATE_TOLERANCE
    /\ BIN_COORDINATES[b + 1][2] - p[2] < COORDINATE_TOLERANCE

StopIndices == 0..(Len(BIN_COORDINATES) - 1)
RouteIndices == 0..(RouteLen - 1)

\* The point of route index k lies in the square of at least one stop.
Covered(k) == \E b \in StopIndices : InSquare(ROUTE_COORDINATES[k + 1], b)

\* The route indices whose point lies in the square of at least one stop.
CoveredIndices == {k \in RouteIndices : Covered(k)}

\* The run is over: the loop has finished, or an exception has ended it.
Ended == pc \in {"done", "aborted"}

\* The first stop, in list order, whose square holds the point of index k.
FirstStop(k) ==
    CHOOSE b \in StopIndices :
        /\ InSquare(ROUTE_COORDINATES[k + 1], b)
        /\ \A c \in StopIndices : InSquare(ROUTE_COORDINATES[k + 1], c) => b <= c

\* C3 as stated, on its plainest case: one stop, the route points pairwise
\* distinct, the stop exactly on the route point of index k.  A finished run
\* then holds exactly one arrival, and it is at index k.
C3_ExactlyOnceAtIndex ==
    ( /\ pc = "done"
      /\ Len(BIN_COORDINATES) = 1
      /\ \A k, m \in RouteIndices :
            ROUTE_COORDINATES[k + 1] = ROUTE_COORDINATES[m + 1] => k = m )
    => \A k \in RouteIndices :
          BIN_COORDINATES[1] = ROUTE_COORDINATES[k + 1] =>
              /\ {n \in DOMAIN log : log[n].ev = "arrive"} = Events("arrive", k)
              /\ Cardinality(Events("arrive", k)) = 1

\* C3 amended: the walker keeps no memory of the stops it served.  For a stop
\* that lies exactly on the route point of index k, a finished run arrives once
\* at index k (at the first stop in list order that covers the point) and
\* departs once, after the arrival; the same happens at every other index that
\* lies in the square of a stop and at no index outside all squares, so the run
\* has a single arrival only when k is the only covered index.
C3_OncePerCoveredIndex ==
    /\ Ended =>
          \A k \in RouteIndices :
              /\ Cardinality(Events("arrive", k)) <= 1
              /\ Cardinality(Events("depart", k)) <= 1
              /\ \A d \in Events("depart", k) :
                    \E a \in Events("arrive", k) : a < d /\ log[a].bin = log[d].bin
              /\ \A a \in Events("arrive", k) :
                    Covered(k) /\ log[a].bin = FirstStop(k)
    /\ pc = "done" =>
          /\ \A k \in CoveredIndices :
                Cardinality(Events("arrive", k)) = 1
                /\ Cardinality(Events("depart", k)) = 1
          /\ \A b \in StopIndices : \A k \in RouteIndices :
                BIN_COORDINATES[b + 1] = ROUTE_COORDINATES[k + 1] =>
                    Cardinality(Events("arrive", k)) = 1

\* the example of the specification: route [[0,0],[0,2]] at spacing 1, one stop
\* at (0,1) whose square holds no other route point; the run has finished with
\* its only arrival at index 1
C3_Witness ==
    /\ pc = "done"
    /\ ORIGINAL_ROUTE_COORDINATES = << <<0, 0>>, <<0, 2>> >>
    /\ spacing_factor = 1
    /\ BIN_COORDINATES = << <<0, 1>> >>
    /\ COORDINATE_TOLERANCE = 1
    /\ Events("arrive", 1) # {}
    /\ Events("depart", 1) # {}
    /\ Events("arrive", 0) = {} /\ Events("arrive", 2) = {}

\* the ranks of the events of one step, in the order the step performs them
Rank(ev) ==
    CASE ev = "report" -> 1
      [] ev = "arrive" -> 2
      [] ev = "dwell" -> 3
      [] ev = "depart" -> 4
      [] ev = "wait" -> 5

\* C4 as stated: no step performs its stop-check before its position report.
C4_ReportBeforeStopCheck ==
    [][(pc = "match" /\ pc' # "match") => Events("report", i) # {}]_vars

\* C4 amended: every step performs, in this order, the stop-check, the position
\* report, the dwell if the check matched (arrival, pause, departure) and the
\* advance to the next index; the check is the first thing of a step, and no
\* step starts before the previous one has completed.
C4_StepOrder ==
    [][ /\ pc = "match" =>
              /\ pc' = "report"
              /\ log # <<>> => log[Len(log)].i < i
              /\ log' = log
        /\ pc = "report" =>
              /\ pc' = IF is_at_bin THEN "arrive" ELSE "advance"
              /\ log' = Append(log, Event("report", i, -1))
        /\ pc = "arrive" => pc' = "dwell"
        /\ pc = "dwell" => pc' \in {"depart", "aborted"}
        /\ pc = "depart" => pc' = "advance"
        /\ pc = "advance" => \/ pc' = "match" /\ i' = i + 1
                             \/ pc' \in {"done", "aborted"} /\ i' = i
        /\ i' # i => pc = "advance"
        /\ log' # log =>
              /\ Len(log') = Len(log) + 1
              /\ SubSeq(log', 1, Len(log)) = log
              /\ log'[Len(log')].i = i
              /\ log # <<>> =>
                    \/ log[Len(log)].i < i
                    \/ /\ log[Len(log)].i = i
                       /\ Rank(log[Len(log)].ev) < Rank(log'[Len(log')].ev)
      ]_vars

\* a step that matched a stop has run to its end in the order check, report,
\* arrival, pause, departure, wait
C4_Witness ==
    /\ pc = "match"
    /\ i = 1
    /\ Len(log) = 5
    /\ log[1].ev = "report" /\ log[2].ev = "arrive" /\ log[3].ev = "dwell"
    /\ log[4].ev = "depart" /\ log[5].ev = "wait"

\* The reports of the log, in order.
Reports == SelectSeq(log, LAMBDA e : e.ev = "report")

\* C5: the walk reports every index once, in ascending order 0..L-1, each with
\* the coordinate of its index: the reports made so far are those of the
\* indices 0..m-1 for some m, and a finished run has made all L of them.
C5_OneReportPerIndex ==
    /\ Len(Reports) <= RouteLen
    /\ \A n \in 1..Len(Reports) :
          /\ Reports[n].i = n - 1
          /\ Reports[n].coords = ROUTE_COORDINATES[n]
    /\ pc \in {"match", "report"} => Len(Reports) = i
    /\ pc \in {"arrive", "dwell", "depart", "advance"} => Len(Reports) = i + 1
    /\ pc = "done" => Len(Reports) = RouteLen

\* a run with no stops over a route of at least three points has finished
C5_Witness ==
    /\ pc = "done"
    /\ BIN_COORDINATES = <<>>
    /\ RouteLen >= 3
    /\ Len(Reports) = RouteLen

\* ------------------------------------------------- claims on the densifier
Loaded == pc # "load"
Original == ORIGINAL_ROUTE_COORDINATES

\* Squared distance d2 is at most bound, up to the rounding of the two points:
\* each coordinate moves by at most half a quantum, the distance by at most
\* sqrt(2), and (bound + sqrt(2))^2 <= bound^2 + 3 * bound + 2.
LeqUpToRounding(d2, bound) == d2 <= bound * bound + 3 * bound + 2

Dist2(p, q) == (q[1] - p[1]) * (q[1] - p[1]) + (q[2] - p[2]) * (q[2] - p[2])

\* C6 as stated, for a route of a single segment: consecutive output points are
\* at most spacing_factor apart, up to rounding.
C6_SpacingAtMost ==
    (Loaded /\ Len(Original) = 2) =>
        \A k \in 1..(RouteLen - 1) :
            LeqUpToRounding(Dist2(ROUTE_COORDINATES[k], ROUTE_COORDINATES[k + 1]),
                            spacing_factor)

\* d2 is the square of a whole multiple of s, or of a length of at most s
WholeMultiple(d2, s) ==
    d2 <= s * s \/ \E n \in 1..d2 : n * n * s * s = d2

\* C6 amended: the count of sub-segments is rounded down, so consecutive output
\* points of a segment of length d are d / max(1, floor(d / s)) apart: less than
\* 2 * s (up to rounding) in every case, and at most s (up to rounding) when
\* d <= s or d is a whole multiple of s.
C6_SpacingBelowTwice ==
    (Loaded /\ Len(Original) >= 2) =>
        /\ \A k \in 1..(RouteLen - 1) :
              LeqUpToRounding(Dist2(ROUTE_COORDINATES[k], ROUTE_COORDINATES[k + 1]),
                              2 * spacing_factor)
        /\ (\A n \in 1..(Len(Original) - 1) :
                WholeMultiple(Dist2(Original[n], Original[n + 1]), spacing_factor))
           => \A k \in 1..(RouteLen - 1) :
                 LeqUpToRounding(Dist2(ROUTE_COORDINATES[k], ROUTE_COORDINATES[k + 1]),
                                 spacing_factor)

\* a single segment of length sqrt(13) densified at spacing 2: s < d < 2s, and
\* the two output points are d apart
C6_Witness ==
    /\ Loaded
    /\ Original = << <<0, 0>>, <<3, 2>> >>
    /\ spacing_factor = 2
    /\ ROUTE_COORDINATES = Original

\* C7: the output starts with the first and ends with the last route point.
C7_EndsPreserved ==
    (Loaded /\ Len(Original) >= 2) =>
        /\ ROUTE_COORDINATES[1] = Original[1]
        /\ ROUTE_COORDINATES[RouteLen] = Original[Len(Original)]

\* a route of three points whose last segment got interior points
C7_Witness ==
    /\ Loaded
    /\ Len(Original) = 3
    /\ RouteLen > 4
    /\ ROUTE_COORDINATES[RouteLen - 1] # Original[2]
    /\ ROUTE_COORDINATES[RouteLen] = Original[3]

\* The reference densifier of the specification.
RefN(a, b, s) ==
    LET f == CHOOSE n \in 0..Dist2(a, b) :
                 /\ n * n * s * s <= Dist2(a, b)
                 /\ (n + 1) * (n + 1) * s * s > Dist2(a, b)
    IN  IF f < 1 THEN 1 ELSE f

\* p / q rounded to the nearest integer, a tie to the even one (p >= 0, q > 0)
RefRound(p, q) ==
    CHOOSE z \in (p \div q)..((p \div q) + 1) :
        /\ 2 * Abs(z * q - p) <= q
        /\ 2 * Abs(z * q - p) = q => z % 2 = 0

RefInterpolant(a, b, j, n) ==
    << RefRound(a[1] * n + j * (b[1] - a[1]), n),
       RefRound(a[2] * n + j * (b[2] - a[2]), n) >>

\* the n-1 interpolants at the ratios j/n, then b
RefSegment(a, b, s) ==
    [j \in 1..RefN(a, b, s) |->
        IF j < RefN(a, b, s) THEN RefInterpolant(a, b, j, RefN(a, b, s)) ELSE b]

RECURSIVE RefSegments(_, _, _)
RefSegments(route, s, n) ==
    IF n >= Len(route) THEN <<>>
    ELSE RefSegment(route[n], route[n + 1], s) \o RefSegments(route, s, n + 1)

RefDensify(route, s) == <<route[1]>> \o RefSegments(route, s, 1)

RECURSIVE SumN(_, _, _)
SumN(route, s, n) ==
    IF n >= Len(route) THEN 0
    ELSE RefN(route[n], route[n + 1], s) + SumN(route, s, n + 1)

\* C8: the output is that of the reference densifier, its length is 1 plus the
\* sum of n over the segments.
C8_EqualsReference ==
    (Loaded /\ Len(Original) >= 2) =>
        /\ ROUTE_COORDINATES = RefDensify(Original, spacing_factor)
        /\ RouteLen = 1 + SumN(Original, spacing_factor, 1)

\* the example of the specification
C8_Witness ==
    /\ Loaded
    /\ Original = << <<0, 0>>, <<0, 2>> >>
    /\ spacing_factor = 1
    /\ ROUTE_COORDINATES = << <<0, 0>>, <<0, 1>>, <<0, 2>> >>

\* the sum of n over the segments whose two ends differ
RECURSIVE SumNonZero(_, _, _)
SumNonZero(route, s, n) ==
    IF n >= Len(route) THEN 0
    ELSE (IF route[n] = route[n + 1] THEN 0 ELSE RefN(route[n], route[n + 1], s))
         + SumNonZero(route, s, n + 1)

\* C9: a zero-distance segment adds nothing to the output: no interpolated
\* point and no second copy of the shared endpoint, so the output has no two
\* equal adjacent points at the place of that segment.
C9_ZeroSegmentEmitsOnce ==
    (Loaded /\ Len(Original) >= 2) =>
        /\ RouteLen = 1 + SumNonZero(Original, spacing_factor, 1)
        /\ \A n \in 1..(Len(Original) - 1) :
              Original[n] = Original[n + 1] =>
                  LET at == 1 + SumN(Original, spacing_factor, 1)
                              - SumN(Original, spacing_factor, n)
                  IN  ROUTE_COORDINATES[at] # ROUTE_COORDINATES[at + 1]

\* ---------------------------------------------- claims on the waypoint match
AfterMatch == pc \in {"report", "arrive", "dwell", "depart", "advance"}

\* C10: the match of a position is the first stop in list order whose
\* tolerance square holds the position, and the dwell uses that stop's index.
C10_FirstMatchWins ==
    /\ AfterMatch =>
          /\ is_at_bin = Covered(i)
          /\ bin_index = IF Covered(i) THEN FirstStop(i) ELSE -1
    /\ Ended =>
          \A n \in DOMAIN log :
              log[n].ev \in {"arrive", "dwell", "depart"} =>
                  /\ Covered(log[n].i)
                  /\ log[n].bin = FirstStop(log[n].i)

\* two different stops A, B (A before B) both cover the position, and the walk
\* dwells at A
C10_Witness ==
    /\ pc = "depart"
    /\ Len(BIN_COORDINATES) = 2
    /\ BIN_COORDINATES[1] # BIN_COORDINATES[2]
    /\ InSquare(ROUTE_COORDINATES[i + 1], 0)
    /\ InSquare(ROUTE_COORDINATES[i + 1], 1)
    /\ bin_index = 0
    /\ log[Len(log)].ev = "dwell" /\ log[Len(log)].bin = 0

\* C11: a position matches a stop exactly when both its longitude and its
\* latitude differ from the stop's by strictly less than the tolerance; a
\* position at or beyond the tolerance on either axis of every stop matches
\* none, and the walk neither arrives nor dwells there.
NearStop(p, b) ==
    /\ Abs(p[1] - BIN_COORDINATES[b + 1][1]) < COORDINATE_TOLERANCE
    /\ Abs(p[2] - BIN_COORDINATES[b + 1][2]) < COORDINATE_TOLERANCE

OutsideAll(p) ==
    \A b \in StopIndices :
        \/ Abs(p[1] - BIN_COORDINATES[b + 1][1]) >= COORDINATE_TOLERANCE
        \/ Abs(p[2] - BIN_COORDINATES[b + 1][2]) >= COORDINATE_TOLERANCE

C11_StrictSquare ==
    /\ AfterMatch =>
          /\ is_at_bin = (\E b \in StopIndices : NearStop(ROUTE_COORDINATES[i + 1], b))
          /\ is_at_bin => NearStop(ROUTE_COORDINATES[i + 1], bin_index)
          /\ OutsideAll(ROUTE_COORDINATES[i + 1]) =>
                 /\ ~is_at_bin
                 /\ bin_index = -1
                 /\ pc \in {"report", "advance"}
    /\ Ended =>
          \A k \in RouteIndices :
              OutsideAll(ROUTE_COORDINATES[k + 1]) =>
                  /\ Events("arrive", k) = {}
                  /\ Events("dwell", k) = {}

\* the position is exactly the tolerance away from the only stop in longitude,
\* at the stop's latitude, and the finished walk has reported it and not dwelt
C11_Witness ==
    /\ pc = "done"
    /\ Len(BIN_COORDINATES) = 1
    /\ Abs(ROUTE_COORDINATES[1][1] - BIN_COORDINATES[1][1]) = COORDINATE_TOLERANCE
    /\ ROUTE_COORDINATES[1][2] = BIN_COORDINATES[1][2]
    /\ Len(log) = 1
    /\ log[1].ev = "report"

\* ------------------------------------------------- claims on the whole walk
\* What the step of route index k does when nothing ends the run, from the
\* route, the stops and the tolerance alone.
StepLog(k) ==
    <<Event("report", k, -1)>>
    \o (IF Covered(k)
        THEN <<Event("arrive", k, FirstStop(k)), Event("dwell", k, FirstStop(k)),
               Event("depart", k, FirstStop(k))>>
        ELSE <<>>)
    \o (IF k < RouteLen - 1 THEN <<Event("wait", k, -1)>> ELSE <<>>)

RECURSIVE FullLog(_)
FullLog(k) == IF k >= RouteLen THEN <<>> ELSE StepLog(k) \o FullLog(k + 1)

\* The part of seq before the first sleep that the given speed and pause time
\* make raise, the whole of seq when there is none.
RECURSIVE Cut(_, _)
Cut(seq, n) ==
    IF n > Len(seq) THEN seq
    ELSE IF \/ seq[n].ev = "dwell" /\ pause_time < 0
            \/ seq[n].ev = "wait" /\ speed <= 0
         THEN SubSeq(seq, 1, n - 1)
         ELSE Cut(seq, n + 1)

\* C12: what a run has done when it ends (the coordinates reported, the
\* arrivals, pauses, departures and waits, in order) is a function of the
\* route, the stops, the tolerance, the speed and the pause time alone: two runs
\* on the same inputs end with the same sequence whatever their reports returned.
C12_OutcomeIndependent ==
    /\ Ended => log = Cut(FullLog(0), 1)
    /\ pc = "done" => log = FullLog(0)

\* a finished run of several points whose last report, at a point inside a
\* stop's square, failed
C12_Witness ==
    /\ pc = "done"
    /\ response = "error"
    /\ RouteLen >= 2
    /\ Covered(RouteLen - 1)
    /\ Events("depart", RouteLen - 1) # {}

\* The walk is about to start at index 0 with a speed and a pause time that no
\* sleep rejects.
WalkStarts ==
    /\ pc = "match"
    /\ i = 0
    /\ log = <<>>
    /\ speed > 0
    /\ pause_time >= 0

\* The point of index k has been checked against the stops, reported and, when
\* it matched, dwelt at.
Processed(k) ==
    /\ Events("report", k) # {}
    /\ Covered(k) => Events("dwell", k) # {} /\ Events("depart", k) # {}

\* C13: a walk that starts at index 0 with a valid speed and pause time, and
\* whose requests and sleeps all return, eventually reaches the end of
\* drive_route; and the end is reached only with the loop at the last index
\* and every point of the route processed.
C13_ReachesDone ==
    /\ WalkStarts ~> (pc = "done")
    /\ [](pc = "done" /\ RouteLen > 0 =>
            /\ i = RouteLen - 1
            /\ \A k \in RouteIndices : Processed(k))

\* the walk has ended after the dwell at the last of several points
C13_Witness ==
    /\ pc = "done"
    /\ speed > 0
    /\ pause_time >= 0
    /\ RouteLen >= 2
    /\ i = RouteLen - 1
    /\ Processed(i)
    /\ Covered(i)

\* --------------------------------------------------- claims on main and reset
\* A request to reset a bin has been made: the loop of line 136 has passed a
\* bin, or is between the primary request and the fallback of one.
ResetRequested == bin_k > 0 \/ pc = "reset_fallback" \/ reset_outcome # "none"

\* C14: with --skip-reset no request to reset a bin's fill level, primary or
\* fallback, is ever made.
C14_SkipResetSkips == skip_reset => ~ResetRequested

\* ------------------------------------------ more claims on the densifier
\* a[na..] can be read off b[nb..] from left to right, skipping entries of b.
RECURSIVE IsSubsequence(_, _, _, _)
IsSubsequence(a, b, na, nb) ==
    IF na > Len(a) THEN TRUE
    ELSE IF nb > Len(b) THEN FALSE
    ELSE IF a[na] = b[nb] THEN IsSubsequence(a, b, na + 1, nb + 1)
    ELSE IsSubsequence(a, b, na, nb + 1)

\* C15: the densified route of a route of at least 2 points holds every vertex
\* of the route, in the route's order, and is at least as long as the route.
C15_KeepsVertices ==
    Loaded /\ Len(Original) >= 2 =>
        /\ IsSubsequence(Original, ROUTE_COORDINATES, 1, 1)
        /\ RouteLen >= Len(Original)

\* a route of three different vertices, densified to more points than it has
C15_Witness ==
    /\ Loaded
    /\ Len(Original) = 3
    /\ Original[1] # Original[2] /\ Original[2] # Original[3] /\ Original[1] # Original[3]
    /\ RouteLen > 3
    /\ IsSubsequence(Original, ROUTE_COORDINATES, 1, 1)

\* C16: a route of fewer than 2 points, empty or of one point, is returned as
\* it is, and the call ends without an exception.
C16_ShortRouteUnchanged ==
    Loaded /\ Len(Original) < 2 =>
        /\ ROUTE_COORDINATES = Original
        /\ exception = "none"
        /\ pc = "main"

\* a route of one point has been densified
C16_Witness ==
    /\ Loaded
    /\ Len(Original) = 1
    /\ ROUTE_COORDINATES = Original
    /\ RouteLen = 1

\* The positions of the log that hold event ev.
AllEvents(ev) == {n \in DOMAIN log : log[n].ev = ev}

\* C17: the walk has no memory of the stops it has served.  A finished run
\* has dwelt as many times as the route has indices whose point lies in the
\* square of some stop: once at each such index, after the report of that
\* index, and nowhere else.
C17_DwellPerCoveredIndex ==
    /\ pc = "done" =>
          /\ Cardinality(AllEvents("dwell")) = Cardinality(CoveredIndices)
          /\ \A k \in RouteIndices :
                /\ Cardinality(Events("dwell", k)) = IF Covered(k) THEN 1 ELSE 0
                /\ \A d \in Events("dwell", k) : \A r \in Events("report", k) : r < d
    /\ pc = "dwell" => Covered(i) /\ Events("dwell", i) = {} /\ Events("report", i) # {}

\* one stop covers two points of the route, and the finished run has dwelt at
\* both
C17_Witness ==
    /\ pc = "done"
    /\ Len(BIN_COORDINATES) = 1
    /\ RouteLen >= 2
    /\ Covered(0) /\ Covered(1)
    /\ Cardinality(AllEvents("dwell")) >= 2
    /\ Events("dwell", 0) # {} /\ Events("dwell", 1) # {}

InReset == pc \in {"reset_put", "reset_fallback"}

\* C18: no position is reported before the reset loop has passed every bin;
\* the primary request of a bin is followed by the fallback request exactly
\* when it failed; the fallback of a bin is made once and the loop moves to the
\* next bin whatever it returned; the loop ends only after the last bin, the
\* walk then starts without an exception, and a finished walk has reported
\* every route point.
C18_ResetPhase ==
    /\ [](log # <<>> => bin_k = NumBinsToReset /\ ~InReset)
    /\ [][pc = "reset_put" /\ bin_k < NumBinsToReset =>
            /\ reset_outcome' \in {"ok", "error"}
            /\ (pc' = "reset_fallback") = (reset_outcome' = "error")
            /\ reset_outcome' = "ok" => pc' = "reset_put" /\ bin_k' = bin_k + 1
            /\ reset_outcome' = "error" => bin_k' = bin_k]_vars
    /\ [][pc' = "reset_fallback" => pc = "reset_put"]_vars
    /\ [][pc = "reset_fallback" =>
            /\ reset_outcome = "error"
            /\ pc' = "reset_put"
            /\ bin_k' = bin_k + 1]_vars
    /\ [][InReset /\ ~InReset' =>
            /\ bin_k = NumBinsToReset
            /\ pc' = IF RouteLen = 0 THEN "done" ELSE "match"
            /\ log' = <<>>
            /\ exception' = "none"]_vars
    /\ [](pc = "done" => Len(Reports) = RouteLen)

\* the primary request of the last bin has failed, its fallback has been made,
\* and the walk is about to start with nothing reported yet
C18_Witness ==
    /\ pc = "reset_put"
    /\ bin_k = NumBinsToReset
    /\ reset_outcome = "error"
    /\ log = <<>>

LastIndex == RouteLen - 1

\* C19: the wait of 1/speed follows every route index but the last.  A
\* finished run over L points has waited L-1 times, once after each index below
\* L-1; in any run that has ended, the dwell and the departure of an index come
\* before the wait of that index, and the last index has no wait: a match there
\* ends the run with its departure.
C19_WaitBetweenSteps ==
    /\ pc = "done" /\ RouteLen > 0 =>
          /\ Cardinality(AllEvents("wait")) = RouteLen - 1
          /\ \A k \in 0..(LastIndex - 1) : Cardinality(Events("wait", k)) = 1
          /\ Covered(LastIndex) =>
                /\ Events("dwell", LastIndex) # {}
                /\ log[Len(log)].ev = "depart"
                /\ log[Len(log)].i = LastIndex
    /\ Ended =>
          /\ RouteLen > 0 => Events("wait", LastIndex) = {}
          /\ \A k \in RouteIndices : \A w \in Events("wait", k) :
                /\ \A d \in Events("dwell", k) \cup Events("depart", k) : d < w
                /\ Covered(k) => Events("dwell", k) # {}

\* a finished run of several points that has dwelt at the first index before
\* its wait, and at the last index with no wait after it
C19_Witness ==
    /\ pc = "done"
    /\ RouteLen >= 2
    /\ Covered(0) /\ Covered(LastIndex)
    /\ Events("wait", 0) # {}
    /\ Events("dwell", LastIndex) # {}
    /\ log[Len(log)].ev = "depart"
    /\ Cardinality(AllEvents("wait")) = RouteLen - 1

\* C20: the login request is made only when the command line gave no token; a
\* login that yields no token, by an error or by an answer without one, ends
\* main at once: the simulator is not constructed, no reset request and no
\* position report is made, then or later.  With a token on the command line
\* main goes straight to the construction.
C20_LoginGate ==
    /\ [](pc = "login" => token = "")
    /\ [][pc' = "login" => pc = "main" /\ token' = ""]_vars
    /\ [][pc = "main" /\ token' # "" => pc' = "construct"]_vars
    /\ [][pc = "login" =>
            /\ token' = "" => pc' = "exited"
            /\ token' # "" => pc' = "construct"]_vars
    /\ [](pc = "exited" =>
            /\ token = ""
            /\ ~ResetRequested
            /\ log = <<>>
            /\ response = "none")
    /\ [][pc # "exited"]_vars
    /\ [](pc \notin {"load", "main", "login", "exited"} => token # "")

\* main has ended after a login that gave no token
C20_Witness ==
    /\ pc = "exited"
    /\ token = ""
    /\ bin_k = 0
    /\ log = <<>>

=============================================================================
